---- MODULE Spec2Model ----
(***************************************************************************)
(* Model of the Makibania modpack installer front end: the App shell       *)
(* (status query, mode selection, error dialog), the TitleScreen status    *)
(* gate and the InstallerScreen orchestrator (run effect, event listener,  *)
(* run_installer resolution, alert queue, error dialog).                   *)
(*                                                                         *)
(* Encoding conventions                                                    *)
(*   - a nullable JS value is a sequence: <<>> is null/undefined, <<v>> is *)
(*     the value v;                                                        *)
(*   - the number carried by an updateProgress event is held in            *)
(*     thousandths (500 is 0.5), the displayed progress is an integer;     *)
(*   - a localized text is written language:key, the table entry it stands *)
(*     for; looking up a key that the table lacks gives undefined.         *)
(***************************************************************************)
EXTENDS Integers, Sequences, FiniteSets, TLC

\* ---------------------------------------------------------------- bounds
MaxEvents == 4      \* events the engine emits during one run_installer call
MaxAlerts == 3      \* length of the alert queue
MaxPending == 2     \* select_mode calls in flight at once
MaxInstances == 2   \* InstallerScreen instances mounted over a behaviour
MaxEffectRuns == 2  \* times React fires the mount effect of one TitleScreen

\* ------------------------------------------------------------ vocabulary
NULL == <<>>
Some(v) == <<v>>

installerModes == {"install", "update"}

TranslationKeys ==
  {"alertOnLaunchModLoader", "alertOnFailedAddProfile",
   "alertOnFailedLaunchModLoader", "appTitle", "close", "complete", "error",
   "install", "installFailed", "installerTitle", "languageOptionEn",
   "languageOptionJa", "languageSelectionLabel", "occurredError",
   "openLogFolder", "phaseAddProfile", "phaseDownloadModLoader",
   "phaseDownloadMods", "phaseDownloadResources", "phaseFinishInstall",
   "phaseFinishUpdate", "phaseLaunchModLoader", "phaseRemoveMods",
   "phaseStart", "phaseUpdateSettings", "titleMessage", "update",
   "updateFailed"}

language == "ja"

\* translations[language][key]: the table entry, undefined for a missing key
Lookup(key) ==
  IF key \in TranslationKeys THEN Some(language \o ":" \o key) ELSE NULL

\* props.translation.<key> for a key the Translation interface declares
translation(key) == Lookup(key)[1]

\* ---------------------------------------------------------------- inputs
\* phase tags the engine sends; the last one is outside the known tags
PhaseInputs == {"downloadModLoader", "downloadMods", "verifyFiles"}

DetailInputs == {"mods/a.jar"}

\* updateProgress payloads in thousandths: -0.2, 0.125, 0.5, 1.0, 1.7
ProgressInputs == {-200, 125, 500, 1000, 1700}

\* (level, translation_key) of the addAlert events the engine sends; the key
\* of the last one is missing from the table
AlertInputs ==
  { <<"info", "alertOnLaunchModLoader">>, <<"warning", "alertOnUnknown">> }

\* values run_installer may reject with: a string, or a non-string object
Thrown ==
  { [typeof |-> "string", value |-> "disk full"],
    [typeof |-> "object", value |-> "io" ] }

\* answers of select_mode
ModeResults ==
  { [isAccept |-> TRUE, error |-> NULL] } \cup
  { [isAccept |-> FALSE, error |-> e] :
      e \in {NULL, Some(""), Some("update is not available")} }

TitleStatuses == [canInstall : BOOLEAN, canUpdate : BOOLEAN]

\* ----------------------------------------------------------------- state
VARIABLES
  \* App
  appIsInitialized,        \* useRef isInitialized
  appInitializedStatus,    \* useState initializedStatus (null until resolved)
  screen,                  \* useState screen
  installerMode,           \* useState installerMode (null or a mode)
  appErrorMessage,         \* useState errorMessage
  pendingSelect,           \* select_mode calls in flight, per mode
  exited,                  \* exit() has been called
  \* TitleScreen instance
  titleIsInitialized,      \* useRef isInitialized
  titleInitializedStatus,  \* useState initializedStatus
  titleEffectRuns,         \* times the initialization effect has fired
  titleInitializeCalls,    \* initialize_title calls of this instance
  \* InstallerScreen instance
  instance,                \* InstallerScreen instances mounted so far
  phase, detail, progress, isFinished, alerts, errorMessage,
  isInstalling,            \* useRef isInstalling
  unlisten,                \* closure variable of the effect run
  hasCleanup,              \* the last effect run returned a cleanup function
  pc,                      \* position of the async runInstaller
  runMode,                 \* props.mode captured by runInstaller's closure
  view,                    \* the alerts of the last committed render
  \* event channel and engine
  listeners,               \* instances whose callback is registered
  engine,                  \* "idle", "running" or "returned"
  emitted,                 \* events dispatched for the current run_installer
  \* history
  listenCalls,             \* listen() calls of the mounted instance
  runCalls,                \* run_installer calls of the mounted instance
  unlistenCalls,           \* unlisten() calls of the mounted instance
  thrown,                  \* value the last run_installer rejected with
  scenario                 \* progress of the run through a test scenario

appVars ==
  <<appIsInitialized, appInitializedStatus, screen, installerMode,
    appErrorMessage, pendingSelect, exited>>
titleVars ==
  <<titleIsInitialized, titleInitializedStatus, titleEffectRuns,
    titleInitializeCalls>>
runState == <<phase, detail, progress, isFinished, alerts, errorMessage>>
effectVars == <<isInstalling, unlisten, hasCleanup, pc, runMode>>
channelVars == <<listeners, engine, emitted>>
historyVars == <<listenCalls, runCalls, unlistenCalls, thrown, scenario>>
vars ==
  <<appVars, titleVars, instance, view, runState, effectVars, channelVars,
    historyVars>>

\* ------------------------------------------------------ scenario monitor
\* scenario records how far the events of the current run follow one of two
\* scripted runs, each event delivered to the callback of the mounted screen:
\*   A       mode install; changePhase(downloadModLoader),
\*           updateProgress(0.5), changePhase(downloadMods),
\*           updateProgress(1.0), then run_installer returns (step 5)
\*   alerts  addAlert A, addAlert B, addAlert A, then the dismissal of the
\*           second alert, B (step 4), then changePhase(downloadMods)
\*           (step 5)
\* <<"start", 0>> is a run without events so far, Off any other run.
Off == <<"off", 0>>

AlertA == <<"info", "alertOnLaunchModLoader">>
AlertB == <<"warning", "alertOnUnknown">>

AfterEvent(isDelivered, type, arg) ==
  IF ~isDelivered THEN Off
  ELSE IF type = "changePhase" /\ arg = "downloadModLoader"
          /\ scenario = <<"start", 0>> /\ runMode = Some("install")
       THEN <<"A", 1>>
  ELSE IF type = "updateProgress" /\ arg = 500 /\ scenario = <<"A", 1>>
       THEN <<"A", 2>>
  ELSE IF type = "changePhase" /\ arg = "downloadMods"
          /\ scenario = <<"A", 2>>
       THEN <<"A", 3>>
  ELSE IF type = "updateProgress" /\ arg = 1000 /\ scenario = <<"A", 3>>
       THEN <<"A", 4>>
  ELSE IF type = "addAlert" /\ arg = AlertA /\ scenario = <<"start", 0>>
       THEN <<"alerts", 1>>
  ELSE IF type = "addAlert" /\ arg = AlertB /\ scenario = <<"alerts", 1>>
       THEN <<"alerts", 2>>
  ELSE IF type = "addAlert" /\ arg = AlertA /\ scenario = <<"alerts", 2>>
       THEN <<"alerts", 3>>
  ELSE IF type = "changePhase" /\ arg = "downloadMods"
          /\ scenario = <<"alerts", 4>>
       THEN <<"alerts", 5>>
  ELSE Off

\* -------------------------------------------------------- pure functions
\* a faulty variant: the case "downloadMods" is missing
PhaseLabelWithoutMods(tag) ==
  CASE tag = "downloadModLoader" -> Some(translation("phaseDownloadModLoader"))
    [] tag = "removeMods"        -> Some(translation("phaseRemoveMods"))
    [] tag = "downloadResources" -> Some(translation("phaseDownloadResources"))
    [] tag = "updateSettings"    -> Some(translation("phaseUpdateSettings"))
    [] tag = "addProfile"        -> Some(translation("phaseAddProfile"))
    [] tag = "launchModLoader"   -> Some(translation("phaseLaunchModLoader"))
    [] OTHER                     -> NULL

\* the inner switch of the changePhase case: the label set by setPhase, or
\* null when no case matches and setPhase is not called
PhaseLabel(tag) ==
  CASE tag = "downloadModLoader" -> Some(translation("phaseDownloadModLoader"))
    [] tag = "removeMods"        -> Some(translation("phaseRemoveMods"))
    [] tag = "downloadMods"      -> Some(translation("phaseDownloadMods"))
    [] tag = "downloadResources" -> Some(translation("phaseDownloadResources"))
    [] tag = "updateSettings"    -> Some(translation("phaseUpdateSettings"))
    [] tag = "addProfile"        -> Some(translation("phaseAddProfile"))
    [] tag = "launchModLoader"   -> Some(translation("phaseLaunchModLoader"))
    [] OTHER                     -> NULL

\* a faulty variant: Math.round(payload.progress), the factor 100 forgotten
ProgressPercentUnscaled(permille) == (permille + 500) \div 1000

\* Math.round(payload.progress * 100) for a payload given in thousandths:
\* Math.round rounds to the nearest integer, a tie towards +infinity
ProgressPercent(permille) == (permille + 5) \div 10

\* a faulty variant: alerts.filter((_, i) => i < index)
FilterIndexTruncates(list, index) == SubSeq(list, 1, index)

\* alerts.filter((_, i) => i !== index), index counted from 0
RECURSIVE FilterIndex(_, _)
FilterIndex(list, index) ==
  IF list = <<>> THEN <<>>
  ELSE IF Len(list) - 1 # index
       THEN Append(FilterIndex(SubSeq(list, 1, Len(list) - 1), index),
                   list[Len(list)])
       ELSE FilterIndex(SubSeq(list, 1, Len(list) - 1), index)

\* the AlertInfo appended by the addAlert case
AlertInfo(level, key) == [level |-> level, message |-> Lookup(key)]

\* a faulty variant: [newAlert, ...alerts]
AppendAlertInFront(list, info) == <<info>> \o list

\* the updater of the addAlert case: [...alerts, newAlert]
AppendAlert(list, info) == Append(list, info)

\* a faulty variant: the message property of the thrown value, which a
\* string does not have
ErrorTextOfMessage(e) ==
  IF e.typeof = "string" THEN "undefined" ELSE e.value

\* typeof e === "string" ? e : String(e)
ErrorText(e) ==
  IF e.typeof = "string" THEN e.value ELSE "[object Object]"

\* a faulty variant: the finish phase of install whatever the mode
FinishPhaseOfInstall(mode) == translation("phaseFinishInstall")

\* the phase set when run_installer returns
FinishPhase(mode) ==
  IF mode = "install" THEN translation("phaseFinishInstall")
  ELSE translation("phaseFinishUpdate")

\* a faulty variant: translation.occurredError + result.error
RejectionMessageNoFallback(result) ==
  translation("occurredError") \o
    (IF result.error # NULL THEN result.error[1] ELSE "undefined")

\* translation.occurredError + (result.error || "<unknown error>")
RejectionMessage(result) ==
  translation("occurredError") \o
    (IF result.error # NULL /\ result.error[1] # ""
     THEN result.error[1] ELSE "<unknown error>")

\* the text of the InstallerScreen error dialog
DialogContentText ==
  << IF installerMode = Some("install") THEN translation("installFailed")
     ELSE translation("updateFailed"),
     errorMessage >>

\* a faulty variant: each button reads the flag of the other mode
ButtonDisabledSwapped(mode, status) ==
  IF mode = "install" THEN ~status.canUpdate ELSE ~status.canInstall

\* disabled attribute of a mode button of the TitleScreen
ButtonDisabled(mode, status) ==
  IF mode = "install" THEN ~status.canInstall ELSE ~status.canUpdate

\* a faulty variant: no guard
InitializeProceedsAlways(guard) == TRUE

\* the guard at the head of the initialization effect of the TitleScreen:
\* TRUE when the effect goes on to call initialize()
InitializeProceeds(guard) == ~guard

\* a faulty variant: no guard
EffectProceedsAlways(guard) == TRUE

\* the guard at the head of the run effect: TRUE when the body goes on
EffectProceeds(guard) == ~guard

\* --------------------------------------------------------- initial state
\* App and TitleScreen are mounted and their initialization effects have
\* run: both initialize_title calls are in flight
Init ==
  /\ appIsInitialized = TRUE
  /\ appInitializedStatus = NULL
  /\ screen = "title"
  /\ installerMode = NULL
  /\ appErrorMessage = NULL
  /\ pendingSelect = [m \in installerModes |-> 0]
  /\ exited = FALSE
  /\ titleIsInitialized = TRUE
  /\ titleInitializedStatus = NULL
  /\ titleEffectRuns = 1
  /\ titleInitializeCalls = 1
  /\ instance = 0
  /\ phase = translation("phaseStart")
  /\ detail = ""
  /\ progress = 0
  /\ isFinished = FALSE
  /\ alerts = <<>>
  /\ errorMessage = NULL
  /\ isInstalling = FALSE
  /\ unlisten = NULL
  /\ hasCleanup = FALSE
  /\ pc = "unmounted"
  /\ runMode = NULL
  /\ view = <<>>
  /\ listeners = {}
  /\ engine = "idle"
  /\ emitted = 0
  /\ listenCalls = 0
  /\ runCalls = 0
  /\ unlistenCalls = 0
  /\ thrown = NULL
  /\ scenario = Off

\* ------------------------------------------------- App: status and modes
\* App's initialize(): initialize_title resolves, setInitialized(status)
AppInitializeResolve ==
  /\ ~exited
  /\ appIsInitialized
  /\ appInitializedStatus = NULL
  /\ appInitializedStatus' = Some("status")
  /\ UNCHANGED <<appIsInitialized, screen, installerMode,
                 appErrorMessage, pendingSelect, exited, titleVars, instance,
                 view, runState, effectVars, channelVars, historyVars>>

\* TitleScreen's initialize(): initialize_title resolves with a status
TitleInitializeResolve(status) ==
  /\ ~exited
  /\ screen = "title"
  /\ titleIsInitialized
  /\ titleInitializedStatus = NULL
  /\ titleInitializedStatus' = Some(status)
  /\ UNCHANGED <<appVars, titleIsInitialized, titleEffectRuns,
                 titleInitializeCalls, instance, view, runState, effectVars,
                 channelVars, historyVars>>

\* the initialization effect of the mounted TitleScreen fires again. Its
\* dependency list is empty: React fires it at mount and once more only when
\* it replays the effects of a mount (StrictMode), before any continuation
\* of initialize() has run. The ref keeps its value across the replay.
TitleEffectRerun ==
  /\ ~exited
  /\ screen = "title"
  /\ titleInitializedStatus = NULL
  /\ titleEffectRuns < MaxEffectRuns
  /\ titleEffectRuns' = titleEffectRuns + 1
  /\ IF InitializeProceeds(titleIsInitialized)
     THEN /\ titleIsInitialized' = TRUE
          /\ titleInitializeCalls' = titleInitializeCalls + 1
     ELSE UNCHANGED <<titleIsInitialized, titleInitializeCalls>>
  /\ UNCHANGED <<appVars, titleInitializedStatus, instance, view,
                 runState, effectVars, channelVars, historyVars>>

PendingTotal == pendingSelect["install"] + pendingSelect["update"]

\* a click on an enabled mode button: onModeSelect up to its await, the
\* select_mode call is now in flight
OnModeSelect(mode) ==
  /\ ~exited
  /\ screen = "title"
  /\ appInitializedStatus # NULL
  /\ appErrorMessage = NULL
  /\ titleInitializedStatus # NULL
  /\ ~ButtonDisabled(mode, titleInitializedStatus[1])
  /\ PendingTotal < MaxPending
  /\ pendingSelect' = [pendingSelect EXCEPT ![mode] = @ + 1]
  /\ UNCHANGED <<appIsInitialized, appInitializedStatus, screen,
                 installerMode, appErrorMessage, exited, titleVars, instance,
                 view, runState, effectVars, channelVars, historyVars>>

\* ------------------------------------------- InstallerScreen: run effect
\* the cleanup returned by the run effect calls unlisten when it is set
CleanupReleases == hasCleanup /\ unlisten # NULL

\* React runs the cleanup of the last effect run
EffectCleanup ==
  /\ listeners' = IF CleanupReleases THEN listeners \ {unlisten[1]}
                  ELSE listeners
  /\ unlistenCalls' = IF CleanupReleases THEN unlistenCalls + 1
                      ELSE unlistenCalls

\* the body of the run effect, fired with the current isInstalling ref:
\* past the guard it sets the ref, starts runInstaller (which calls listen
\* and awaits it) and returns a cleanup; otherwise it returns nothing
EffectBody(mode) ==
  IF EffectProceeds(isInstalling)
  THEN /\ isInstalling' = TRUE
       /\ unlisten' = NULL
       /\ pc' = "listen"
       /\ runMode' = Some(mode)
       /\ listenCalls' = listenCalls + 1
       /\ hasCleanup' = TRUE
  ELSE /\ hasCleanup' = FALSE
       /\ UNCHANGED <<isInstalling, unlisten, pc, runMode,
                      listenCalls>>

\* the first render of a new InstallerScreen: fresh state and ref, then the
\* run effect
MountInstallerScreen(mode) ==
  /\ instance' = instance + 1
  /\ phase' = translation("phaseStart")
  /\ detail' = ""
  /\ progress' = 0
  /\ isFinished' = FALSE
  /\ alerts' = <<>>
  /\ view' = <<>>
  /\ errorMessage' = NULL
  /\ EffectProceeds(FALSE)
  /\ isInstalling' = TRUE
  /\ unlisten' = NULL
  /\ pc' = "listen"
  /\ runMode' = Some(mode)
  /\ hasCleanup' = TRUE
  /\ listenCalls' = 1
  /\ runCalls' = 0
  /\ unlistenCalls' = 0
  /\ scenario' = Off
  /\ UNCHANGED <<listeners, engine, emitted>>

\* props.mode changed on the mounted InstallerScreen: cleanup, then the
\* effect fires again
RerunEffect(mode) ==
  /\ EffectCleanup
  /\ EffectBody(mode)
  /\ UNCHANGED <<instance, view, runState, engine, emitted, runCalls,
                 scenario>>

\* the rest of onModeSelect once select_mode has answered, with the render
\* that its state updates cause
SelectModeResponse(mode, result) ==
  /\ ~exited
  /\ pendingSelect[mode] > 0
  /\ (result.isAccept /\ screen = "title") => instance < MaxInstances
  /\ pendingSelect' = [pendingSelect EXCEPT ![mode] = @ - 1]
  /\ UNCHANGED <<appIsInitialized, appInitializedStatus, exited, thrown>>
  /\ IF ~result.isAccept
     THEN /\ appErrorMessage' = Some(RejectionMessage(result))
          /\ UNCHANGED <<screen, installerMode, titleVars,
                         instance, view, runState, effectVars, channelVars,
                         listenCalls, runCalls, unlistenCalls, scenario>>
     ELSE /\ installerMode' = Some(mode)
          /\ screen' = "installer"
          /\ UNCHANGED appErrorMessage
          /\ IF screen = "title"
             THEN /\ titleIsInitialized' = FALSE
                  /\ titleInitializedStatus' = NULL
                  /\ titleEffectRuns' = 0
                  /\ titleInitializeCalls' = 0
                  /\ MountInstallerScreen(mode)
             ELSE IF installerMode # Some(mode)
             THEN /\ RerunEffect(mode)
                  /\ UNCHANGED titleVars
             ELSE UNCHANGED <<titleVars, instance, view,
                              runState, effectVars, channelVars, listenCalls,
                              runCalls, unlistenCalls, scenario>>

\* the select_mode call rejects: onModeSelect has no try block, its await
\* throws and the async handler ends with an unhandled rejection
SelectModeReject(mode) ==
  /\ ~exited
  /\ pendingSelect[mode] > 0
  /\ pendingSelect' = [pendingSelect EXCEPT ![mode] = @ - 1]
  /\ UNCHANGED <<appIsInitialized, appInitializedStatus, screen,
                 installerMode, appErrorMessage, exited, titleVars, instance,
                 view, runState, effectVars, channelVars, historyVars>>

\* runInstaller: the listen call resolves, unlisten is assigned and
\* run_installer is invoked with the mode of the closure
ListenResolve ==
  /\ ~exited
  /\ pc = "listen"
  /\ unlisten' = Some(instance)
  /\ listeners' = listeners \cup {instance}
  /\ pc' = "run"
  /\ runCalls' = runCalls + 1
  /\ engine' = "running"
  /\ emitted' = 0
  /\ scenario' = <<"start", 0>>
  /\ UNCHANGED <<appVars, titleVars, instance, view, runState,
                 isInstalling, hasCleanup, runMode, listenCalls,
                 unlistenCalls, thrown>>

\* runInstaller: the listen call rejects outside the try block; the async
\* function ends with an unhandled rejection
ListenReject ==
  /\ ~exited
  /\ pc = "listen"
  /\ pc' = "listenRejected"
  /\ UNCHANGED <<appVars, titleVars, instance, view, runState,
                 isInstalling, unlisten, hasCleanup, runMode, channelVars,
                 historyVars>>

\* runInstaller: run_installer returns
RunInstallerResolve ==
  /\ ~exited
  /\ pc = "run"
  /\ phase' = FinishPhase(runMode[1])
  /\ detail' = ""
  /\ isFinished' = TRUE
  /\ pc' = "done"
  /\ engine' = "returned"
  /\ scenario' = IF scenario = <<"A", 4>> THEN <<"A", 5>> ELSE Off
  /\ UNCHANGED <<appVars, titleVars, instance, view, progress, alerts,
                 errorMessage, isInstalling, unlisten, hasCleanup, runMode,
                 listeners, emitted, listenCalls, runCalls, unlistenCalls,
                 thrown>>

\* runInstaller: run_installer rejects with e, the catch block runs
RunInstallerReject(e) ==
  /\ ~exited
  /\ pc = "run"
  /\ errorMessage' = Some(ErrorText(e))
  /\ thrown' = Some(e)
  /\ pc' = "done"
  /\ engine' = "returned"
  /\ scenario' = Off
  /\ UNCHANGED <<appVars, titleVars, instance, view, phase, detail,
                 progress, isFinished, alerts, isInstalling, unlisten,
                 hasCleanup, runMode, listeners, emitted, listenCalls,
                 runCalls, unlistenCalls>>

\* ------------------------------------------------ installer://event
\* the engine emits while run_installer executes; the webview dispatches an
\* event independently of the run_installer response, so the dispatch of an
\* emitted event may follow the continuation of runInstaller. An event
\* dispatched after the screen of its run was unmounted reaches no live
\* callback before the next run_installer call; from then on it is one of
\* the events of that call. Such events are left out.
CanEmit ==
  /\ ~exited
  /\ screen = "installer"
  /\ engine # "idle"
  /\ emitted < MaxEvents

\* the callback registered by the mounted InstallerScreen is called; the
\* callback of an unmounted instance sets state of a dead component
Delivered == screen = "installer" /\ instance \in listeners

\* case "changePhase"
ChangePhase(tag) ==
  /\ CanEmit
  /\ emitted' = emitted + 1
  /\ IF Delivered
     THEN /\ detail' = ""
          /\ phase' = IF PhaseLabel(tag) # NULL THEN PhaseLabel(tag)[1]
                      ELSE phase
     ELSE UNCHANGED <<phase, detail>>
  /\ scenario' = AfterEvent(Delivered, "changePhase", tag)
  /\ UNCHANGED <<appVars, titleVars, instance, view, progress,
                 isFinished, alerts, errorMessage, effectVars, listeners,
                 engine, listenCalls, runCalls, unlistenCalls, thrown>>

\* case "changeDetail"
ChangeDetail(text) ==
  /\ CanEmit
  /\ emitted' = emitted + 1
  /\ detail' = IF Delivered THEN text ELSE detail
  /\ scenario' = AfterEvent(Delivered, "changeDetail", text)
  /\ UNCHANGED <<appVars, titleVars, instance, view, phase, progress,
                 isFinished, alerts, errorMessage, effectVars, listeners,
                 engine, listenCalls, runCalls, unlistenCalls, thrown>>

\* case "updateProgress"
UpdateProgress(permille) ==
  /\ CanEmit
  /\ emitted' = emitted + 1
  /\ progress' = IF Delivered THEN ProgressPercent(permille) ELSE progress
  /\ scenario' = AfterEvent(Delivered, "updateProgress", permille)
  /\ UNCHANGED <<appVars, titleVars, instance, view, phase, detail,
                 isFinished, alerts, errorMessage, effectVars, listeners,
                 engine, listenCalls, runCalls, unlistenCalls, thrown>>

\* case "addAlert": setAlerts queues the update; isRendered tells whether
\* the step includes the render that React commits for it
AlertEvent(level, key, isRendered) ==
  /\ CanEmit
  /\ Delivered => Len(alerts) < MaxAlerts
  /\ emitted' = emitted + 1
  /\ alerts' = IF Delivered
               THEN AppendAlert(alerts, AlertInfo(level, key))
               ELSE alerts
  /\ view' = IF isRendered THEN alerts' ELSE view
  /\ scenario' = AfterEvent(Delivered, "addAlert", <<level, key>>)
  /\ UNCHANGED <<appVars, titleVars, instance, phase, detail, progress,
                 isFinished, errorMessage, effectVars, listeners, engine,
                 listenCalls, runCalls, unlistenCalls, thrown>>

\* an addAlert event together with its render
AddAlert(level, key) == AlertEvent(level, key, TRUE)

\* an addAlert event whose render is still to come (CommitRender)
AddAlertQueued(level, key) == AlertEvent(level, key, FALSE)

\* React commits the render of the queued alert updates: alerts.map renders
\* one Alert per element, each with an onClose that holds its index
CommitRender ==
  /\ ~exited
  /\ screen = "installer"
  /\ view # alerts
  /\ view' = alerts
  /\ UNCHANGED <<appVars, titleVars, instance, runState, effectVars,
                 channelVars, historyVars>>

\* ------------------------------------------------------- user actions
\* onClose of the alert rendered at position index: the handler belongs to
\* the last committed render, its updater filters the current alerts, and
\* the update of a click is rendered before another handler runs; an
\* appended alert that awaits its render keeps awaiting it
DismissAlert(index) ==
  /\ ~exited
  /\ screen = "installer"
  /\ errorMessage = NULL
  /\ appErrorMessage = NULL
  /\ index \in 0 .. Len(view) - 1
  /\ alerts' = FilterIndex(alerts, index)
  /\ view' = FilterIndex(view, index)
  /\ scenario' = IF scenario = <<"alerts", 3>> /\ index = 1
                 THEN <<"alerts", 4>> ELSE Off
  /\ UNCHANGED <<appVars, titleVars, instance, phase, detail, progress,
                 isFinished, errorMessage, effectVars, channelVars,
                 listenCalls, runCalls, unlistenCalls, thrown>>

\* handleClose of the InstallerScreen error dialog, with App's
\* onDismissError and the render it causes: the InstallerScreen unmounts
\* (cleanup, state and ref discarded) and a new TitleScreen mounts and calls
\* initialize_title
HandleClose ==
  /\ ~exited
  /\ screen = "installer"
  /\ errorMessage # NULL
  /\ errorMessage' = NULL
  /\ installerMode' = NULL
  /\ screen' = "title"
  /\ EffectCleanup
  /\ phase' = translation("phaseStart")
  /\ detail' = ""
  /\ progress' = 0
  /\ isFinished' = FALSE
  /\ alerts' = <<>>
  /\ view' = <<>>
  /\ isInstalling' = FALSE
  /\ unlisten' = NULL
  /\ hasCleanup' = FALSE
  /\ pc' = "unmounted"
  /\ runMode' = NULL
  /\ InitializeProceeds(FALSE)
  /\ titleIsInitialized' = TRUE
  /\ titleInitializedStatus' = NULL
  /\ titleEffectRuns' = 1
  /\ titleInitializeCalls' = 1
  /\ scenario' = Off
  /\ thrown' = NULL
  /\ engine' = "idle"
  /\ emitted' = 0
  /\ UNCHANGED <<appIsInitialized, appInitializedStatus, appErrorMessage,
                 pendingSelect, exited, instance, listenCalls, runCalls>>

\* onClose / close button of App's error dialog
CloseAppError ==
  /\ ~exited
  /\ appErrorMessage # NULL
  /\ appErrorMessage' = NULL
  /\ UNCHANGED <<appIsInitialized, appInitializedStatus, screen,
                 installerMode, pendingSelect, exited, titleVars, instance,
                 view, runState, effectVars, channelVars, historyVars>>

\* the complete button, shown once isFinished: onComplete calls exit(); no
\* handler runs in the exited application
OnComplete ==
  /\ ~exited
  /\ screen = "installer"
  /\ isFinished
  /\ errorMessage = NULL
  /\ appErrorMessage = NULL
  /\ exited' = TRUE
  /\ UNCHANGED <<appIsInitialized, appInitializedStatus, screen,
                 installerMode, appErrorMessage, pendingSelect, titleVars,
                 instance, view, runState, effectVars, channelVars,
                 historyVars>>

\* ---------------------------------------------------------- specification
Next ==
  \/ AppInitializeResolve
  \/ \E status \in TitleStatuses : TitleInitializeResolve(status)
  \/ TitleEffectRerun
  \/ \E mode \in installerModes : OnModeSelect(mode)
  \/ \E mode \in installerModes, result \in ModeResults :
       SelectModeResponse(mode, result)
  \/ \E mode \in installerModes : SelectModeReject(mode)
  \/ ListenResolve
  \/ ListenReject
  \/ RunInstallerResolve
  \/ \E e \in Thrown : RunInstallerReject(e)
  \/ \E tag \in PhaseInputs : ChangePhase(tag)
  \/ \E text \in DetailInputs : ChangeDetail(text)
  \/ \E permille \in ProgressInputs : UpdateProgress(permille)
  \/ \E a \in AlertInputs : AddAlert(a[1], a[2])
  \/ \E index \in 0 .. MaxAlerts - 1 : DismissAlert(index)
  \/ HandleClose
  \/ CloseAppError
  \/ OnComplete

Spec == Init /\ [][Next]_vars

\* Spec with the promises of the engine-facing calls of runInstaller
\* settling: an awaited listen call resolves or rejects, and so does an
\* awaited run_installer call
LiveSpec ==
  /\ Spec
  /\ WF_vars(ListenResolve \/ ListenReject)
  /\ WF_vars(RunInstallerResolve \/ \E e \in Thrown : RunInstallerReject(e))

\* ------------------------------------------- the alert queue and its render
\* The specification above takes the render of an addAlert event together
\* with the event. The one below follows a single InstallerScreen with its
\* run in progress and keeps the two apart: the alerts on screen, and the
\* index each onClose holds, are those of the last committed render.
\* InitRunning is a state of Spec: mode accepted, screen mounted, listen
\* resolved, run_installer called.
InitRunning ==
  /\ appIsInitialized = TRUE
  /\ appInitializedStatus = Some("status")
  /\ screen = "installer"
  /\ installerMode \in {Some(mode) : mode \in installerModes}
  /\ appErrorMessage = NULL
  /\ pendingSelect = [m \in installerModes |-> 0]
  /\ exited = FALSE
  /\ titleIsInitialized = FALSE
  /\ titleInitializedStatus = NULL
  /\ titleEffectRuns = 0
  /\ titleInitializeCalls = 0
  /\ instance = 1
  /\ phase = translation("phaseStart")
  /\ detail = ""
  /\ progress = 0
  /\ isFinished = FALSE
  /\ alerts = <<>>
  /\ errorMessage = NULL
  /\ isInstalling = TRUE
  /\ unlisten = Some(1)
  /\ hasCleanup = TRUE
  /\ pc = "run"
  /\ runMode = installerMode
  /\ view = <<>>
  /\ listeners = {1}
  /\ engine = "running"
  /\ emitted = 0
  /\ listenCalls = 1
  /\ runCalls = 1
  /\ unlistenCalls = 0
  /\ thrown = NULL
  /\ scenario = <<"start", 0>>

NextAlerts ==
  \/ \E tag \in PhaseInputs : ChangePhase(tag)
  \/ \E text \in DetailInputs : ChangeDetail(text)
  \/ \E permille \in ProgressInputs : UpdateProgress(permille)
  \/ \E a \in AlertInputs : AddAlertQueued(a[1], a[2])
  \/ CommitRender
  \/ \E index \in 0 .. MaxAlerts - 1 : DismissAlert(index)
  \/ RunInstallerResolve
  \/ \E e \in Thrown : RunInstallerReject(e)

SpecAlerts == InitRunning /\ [][NextAlerts]_vars

\* ================================================================ claims
\* a step that dispatches one installer://event message
EventStep ==
  \/ \E tag \in PhaseInputs : ChangePhase(tag)
  \/ \E text \in DetailInputs : ChangeDetail(text)
  \/ \E permille \in ProgressInputs : UpdateProgress(permille)
  \/ \E a \in AlertInputs : AddAlert(a[1], a[2])

\* the run of the mounted screen has reached Finished or Errored
Terminal == isFinished \/ errorMessage # NULL

\* C1: once the run is Finished or Errored, an installer://event message
\* dispatched afterwards leaves phase, detail, progress, alerts and the
\* outcome unchanged.
C1_NoEventAfterTerminal ==
  [][(Terminal /\ EventStep) => UNCHANGED runState]_vars

\* C2: the subscription of a run is released exactly once on every exit
\* path: no listener is registered once the run has ended or the screen has
\* been torn down, and unlisten is never called twice.
C2_SubscriptionReleased ==
  /\ (screen = "installer" /\ pc = "done") => instance \notin listeners
  /\ screen = "title" => listeners = {}
  /\ unlistenCalls <= 1

\* C3: every changePhase event received while Running sets detail to the
\* empty string and progress to 0.
C3_ChangePhaseResets ==
  [][\A tag \in PhaseInputs :
       (ChangePhase(tag) /\ Delivered /\ ~Terminal)
         => (detail' = "" /\ progress' = 0)]_vars

\* round(clamp(p, 0, 1) * 100) for p in thousandths
ClampedPercent(permille) ==
  IF permille < 0 THEN 0
  ELSE IF permille > 1000 THEN 100
  ELSE (permille + 5) \div 10

\* C4: after an updateProgress event with payload p the displayed progress
\* is round(clamp(p, 0, 1) * 100), so it lies in 0..100 and -0.2 and 1.7
\* give 0 and 100.
C4_ProgressClamped ==
  [][\A permille \in ProgressInputs :
       (UpdateProgress(permille) /\ Delivered)
         => (progress' = ClampedPercent(permille) /\ progress' \in 0 .. 100)
    ]_vars

\* C5: dismissing the alert at position i gives the alert sequence with
\* element i deleted and all the others in their order. (A dismissal
\* dispatches no event: only steps that leave emitted alone are examined.)
C5_DismissRemovesExactlyOne ==
  [][(emitted' = emitted /\ alerts # <<>>)
       => \A index \in 0 .. MaxAlerts - 1 :
            DismissAlert(index)
              => alerts' = SubSeq(alerts, 1, index)
                             \o SubSeq(alerts, index + 2, Len(alerts))]_vars

\* C5 witness: A, B, A were appended and B was dismissed: A, A remain
C5_Witness ==
  /\ scenario = <<"alerts", 4>>
  /\ alerts = << AlertInfo(AlertA[1], AlertA[2]),
                 AlertInfo(AlertA[1], AlertA[2]) >>

\* C6: the run effect firing again on a mounted InstallerScreen is a no-op
\* while the guard is set: listen and run_installer are each called at most
\* once per InstallerScreen instance.
C6_AtMostOneRun ==
  /\ listenCalls <= 1
  /\ runCalls <= 1

\* C6 witness: the effect fired again (its second run returned no cleanup)
\* while the run of the first was in progress
C6_Witness ==
  /\ screen = "installer"
  /\ isInstalling
  /\ ~hasCleanup
  /\ pc = "run"
  /\ runCalls = 1

C8_CompletionByReturn ==
  [][/\ RunInstallerResolve
          => /\ isFinished'
             /\ detail' = ""
             /\ runMode = Some("install")
                  => phase' = language \o ":phaseFinishInstall"
             /\ runMode = Some("update")
                  => phase' = language \o ":phaseFinishUpdate"
     /\ (~isFinished /\ isFinished')
          => (RunInstallerResolve /\ ~EventStep)]_vars

\* C8 witness: an update run finished without a single event
C8_Witness ==
  /\ isFinished
  /\ runMode = Some("update")
  /\ emitted = 0
  /\ phase = language \o ":phaseFinishUpdate"

C10_RejectionStartsNoRun ==
  [][(pendingSelect' # pendingSelect)
       => \A mode \in installerModes, result \in ModeResults :
            (SelectModeResponse(mode, result) /\ ~result.isAccept)
              => /\ UNCHANGED <<screen, installerMode, instance, pc,
                                listenCalls, runCalls, engine>>
                 /\ appErrorMessage' # NULL
                 /\ result.error = NULL
                      => appErrorMessage'[1]
                           = language \o ":occurredError" \o "<unknown error>"
                 /\ (result.error # NULL /\ result.error[1] # "")
                      => appErrorMessage'[1]
                           = language \o ":occurredError" \o result.error[1]
    ]_vars

\* C10 witness: a rejection without error text on the title screen, no run
C10_Witness ==
  /\ screen = "title"
  /\ installerMode = NULL
  /\ instance = 0
  /\ engine = "idle"
  /\ appErrorMessage = Some(language \o ":occurredError<unknown error>")

\* C11: a changePhase event whose tag is none of the known tags, received
\* while Running, fails the run: an error is recorded. It is neither ignored
\* nor applied in part (detail cleared, phase kept).
C11_UnknownTagIsFatal ==
  [][\A tag \in PhaseInputs :
       (ChangePhase(tag) /\ Delivered /\ ~Terminal /\ PhaseLabel(tag) = NULL)
         => errorMessage' # NULL]_vars

\* C12: every addAlert event appends exactly one alert whose message is the
\* table entry of its key, or the raw key when the table lacks it: a defined,
\* non-empty text.
C12_AlertMessageDefined ==
  [][\A a \in AlertInputs :
       (AddAlert(a[1], a[2]) /\ Delivered)
         => /\ alerts' = Append(alerts,
                           [level |-> a[1],
                            message |-> IF a[2] \in TranslationKeys
                                        THEN Some(language \o ":" \o a[2])
                                        ELSE Some(a[2])])
            /\ alerts'[Len(alerts')].message \notin {NULL, Some("")}]_vars

\* C13: every changePhase event with a known tag that is emitted between the
\* call of run_installer and its return or throw is recorded: the phase after
\* the event is the label of its tag. (Events are handled one at a time in
\* emission order, so the recorded sequence equals the emitted one exactly
\* when no event is dropped.)
C13_PhaseEventsRecorded ==
  [][\A tag \in PhaseInputs :
       (ChangePhase(tag) /\ pc = "run" /\ PhaseLabel(tag) # NULL)
         => phase' = PhaseLabel(tag)[1]]_vars

\* C14: every failure of an engine-facing call is caught and shown: a
\* rejected listen call or a rejected run_installer call records the error of
\* the run, a rejected select_mode call records the error of the App.
C14_FailuresAreCaught ==
  [][/\ ListenReject => errorMessage' # NULL
     /\ (\E e \in Thrown : RunInstallerReject(e)) => errorMessage' # NULL
     /\ (pendingSelect' # pendingSelect)
          => \A mode \in installerModes :
               SelectModeReject(mode) => appErrorMessage' # NULL]_vars

\* the state of a run that has not begun: the initial values of the hooks
FreshRunState ==
  /\ phase = language \o ":phaseStart"
  /\ detail = ""
  /\ progress = 0
  /\ alerts = <<>>
  /\ errorMessage = NULL
  /\ ~isFinished

\* C15: after the error of a run was dismissed the title screen is shown with
\* the run state discarded, and a mode accepted afterwards starts a new run
\* cleanly: the guard lets the effect through, the run begins with phase
\* Start, empty detail, progress 0, no alerts and no error, run_installer is
\* called once more, and no listener of an earlier run is registered. (A
\* second InstallerScreen instance is mounted only after a dismissal.)
C15_NewRunStartsClean ==
  /\ (screen = "title" /\ instance > 0)
       => (installerMode = NULL /\ FreshRunState)
  /\ (screen = "installer" /\ instance > 1)
       => /\ isInstalling
          /\ listenCalls = 1
          /\ pc = "listen" => (FreshRunState /\ runCalls = 0)
          /\ pc \in {"run", "done"} => runCalls = 1
          /\ listeners \subseteq {instance}

\* C16: the accepted mode is frozen while the InstallerScreen is shown: no
\* step changes installerMode from the start of a run to its dismissal, so
\* the mode run_installer was called with (which also selects the finish
\* phase) is the mode that frames a failure.
C16_ModeFrozen ==
  [][screen' = "installer"
       => /\ screen = "installer" => installerMode' = installerMode
          /\ runMode' = installerMode']_vars

\* C17: initialize_title is called exactly once in the lifetime of a
\* TitleScreen instance, however often its initialization effect fires: a
\* further firing is stopped by the guard and calls nothing.
C17_InitializeOnce ==
  /\ screen = "title" => titleInitializeCalls = 1
  /\ titleInitializeCalls <= 1

\* C17 witness: the effect of the mounted TitleScreen has fired more than
\* once and one initialize_title call was made
C17_Witness ==
  /\ screen = "title"
  /\ titleEffectRuns > 1
  /\ titleIsInitialized
  /\ titleInitializeCalls = 1

\* C18: a select_mode call is issued only once the status query of the
\* TitleScreen has resolved, and only for a mode whose flag in the status is
\* true: install needs canInstall, update needs canUpdate.
C18_StatusGate ==
  [][\A mode \in installerModes :
       pendingSelect'[mode] > pendingSelect[mode]
         => /\ titleInitializedStatus # NULL
            /\ mode = "install" => titleInitializedStatus[1].canInstall
            /\ mode = "update" => titleInitializedStatus[1].canUpdate]_vars

\* C18 witness: the status allows install only, and select_mode was issued
\* for install
C18_Witness ==
  /\ screen = "title"
  /\ instance = 0
  /\ titleInitializedStatus = Some([canInstall |-> TRUE, canUpdate |-> FALSE])
  /\ pendingSelect = [m \in installerModes |->
                        IF m = "install" THEN 1 ELSE 0]

\* C19: alerts do not interfere with the run: an addAlert event and the
\* dismissal of an alert change the alert sequence only (phase, detail,
\* progress and outcome stay as they are, so no alert makes the run Errored),
\* and a changePhase event received with alerts in the queue still sets the
\* phase of its tag and leaves the alerts alone.
C19_AlertsDoNotInterfere ==
  [][/\ (alerts' # alerts)
          => ((\/ \E a \in AlertInputs : AddAlert(a[1], a[2])
               \/ \E index \in 0 .. MaxAlerts - 1 : DismissAlert(index))
                => UNCHANGED <<phase, detail, progress, isFinished,
                               errorMessage>>)
     /\ (emitted' # emitted /\ alerts # <<>> /\ Delivered)
          => \A tag \in PhaseInputs :
               ChangePhase(tag)
                 => /\ alerts' = alerts
                    /\ errorMessage' = errorMessage
                    /\ tag = "downloadModLoader"
                         => phase' = language \o ":phaseDownloadModLoader"
                    /\ tag = "downloadMods"
                         => phase' = language \o ":phaseDownloadMods"]_vars

\* C19 witness: three alerts were appended and one dismissed, then a
\* changePhase event took effect; the run is still Running
C19_Witness ==
  /\ scenario = <<"alerts", 5>>
  /\ Len(alerts) = 2
  /\ phase = language \o ":phaseDownloadMods"
  /\ ~Terminal

\* C20: the alert a dismissal removes is the one that was rendered at the
\* dismissed position, also when alerts were appended after that render: the
\* rendered alerts are the first of the queue in their order, the element
\* removed from the queue is at the rendered position, and all others stay.
C20_RemovalIsIdentityStable ==
  [][(emitted' = emitted /\ view # <<>>)
       => \A index \in 0 .. MaxAlerts - 1 :
            DismissAlert(index)
              => /\ Len(view) <= Len(alerts)
                 /\ view = SubSeq(alerts, 1, Len(view))
                 /\ alerts' = SubSeq(alerts, 1, index)
                                \o SubSeq(alerts, index + 2, Len(alerts))
                 /\ view' = SubSeq(view, 1, index)
                              \o SubSeq(view, index + 2, Len(view))]_vars

\* C20 witness: A and B were rendered, A was appended and not yet rendered,
\* then the second alert, B, was dismissed: A, A remain and one A is on
\* screen
C20_Witness ==
  /\ scenario = <<"alerts", 4>>
  /\ view = << AlertInfo(AlertA[1], AlertA[2]) >>
  /\ alerts = << AlertInfo(AlertA[1], AlertA[2]),
                 AlertInfo(AlertA[1], AlertA[2]) >>

\* C21: the subscription precedes the run: run_installer is called only
\* once the listen call of the screen has resolved and its listener is
\* registered, and every event emitted while run_installer runs is delivered
\* to the listener of that run.
C21_SubscribedBeforeRun ==
  [][/\ runCalls' > runCalls
          => (pc = "listen" /\ pc' = "run" /\ instance \in listeners')
     /\ (emitted' # emitted /\ pc = "run") => Delivered]_vars

\* C22: the outcomes exclude each other and Finished is stable: in no state
\* is the run both Finished and Errored, and once isFinished is true it
\* stays true and no error is recorded.
C22_OutcomesExclusiveAndStable ==
  [][/\ ~(isFinished' /\ errorMessage' # NULL)
     /\ isFinished => (isFinished' /\ errorMessage' = NULL)]_vars

\* C22 witness: the run finished and an event dispatched afterwards changed
\* the phase; the outcome is still Finished and no error is recorded
C22_Witness ==
  /\ screen = "installer"
  /\ pc = "done"
  /\ isFinished
  /\ errorMessage = NULL
  /\ phase = language \o ":phaseDownloadMods"

\* C23: every started run resolves, given that the listen call and the
\* run_installer call each settle: once the effect has taken the guard and
\* called listen, run_installer is eventually called, and a mounted screen
\* whose guard is set eventually shows Finished or Errored.
C23_StartedRunResolves ==
  /\ (pc = "listen") ~> (pc = "run")
  /\ (screen = "installer" /\ isInstalling) ~> Terminal

====
